---- MODULE Spec2Model ----
(***************************************************************************)
(* Model of src/library/audio_extract_param.py: MFCC parametrization of a  *)
(* dataset of audio files, reduction of the per-file matrices to summary   *)
(* statistics, the two accessors and the pickle read path.                 *)
(*                                                                         *)
(* librosa, numpy and pickle are external to the repository.  Their calls  *)
(* are modelled by deterministic stand-ins (librosa_.., np_.., pickle_..)  *)
(* that keep what the calling code relies on: a result that is a function  *)
(* of the arguments, or an exception.  A matrix is a sequence of rows      *)
(* (one per coefficient), a row a sequence of integer samples over time.   *)
(***************************************************************************)
EXTENDS Integers, Sequences, FiniteSets, TLC

VARIABLES
    op,               \* the function of the module that is being executed
    pc,               \* position inside it: a line label, "returned" or "raised"
    ret,              \* what the caller receives: nothing yet, a value, an exception
    df,               \* mfccs_parametrization_dataset: the dataset table
    n_coef,           \* mfccs_parametrization_dataset: requested coefficient count
    disk,             \* the audio files under data_path, by path
    it,               \* position of the df.iterrows() iterator (1-based)
    row,              \* loop variable `row`
    signal,           \* loop variable `signal, sr` (the pair librosa.load returned)
    triple,           \* loop variables `mfccs, d1_mfccs, d2_mfccs`
    extracted_mfccs,  \* the accumulation list
    reads,            \* the paths handed to librosa.load so far, in call order
    mfccs_param,      \* argument of mfccs_features / get_target / get_file
    n_statistics,     \* mfccs_features: local n_statistics
    features,         \* mfccs_features: local features (the 2D array)
    i,                \* mfccs_features: loop index (1-based)
    file              \* content of the pickle file at mfccs_feature_path

vars == <<op, pc, ret, df, n_coef, disk, it, row, signal, triple,
          extracted_mfccs, reads, mfccs_param, n_statistics, features, i, file>>

dataset_vars == <<df, n_coef, disk, it, row, signal, triple, extracted_mfccs, reads>>
param_vars   == <<mfccs_param, n_statistics, features, i, file>>

----------------------------------------------------------------------------
(* Bounds of the model *)

MaxRows    == 3    \* rows of the dataset table
MaxCoef    == 2    \* largest coefficient count requested
MaxRecords == 2    \* records of a feature-record sequence

(* Program constants *)

DefaultFs == 22050

(* Input alphabets *)

FileNames == {"a.wav", "b.wav"}
Classes   == {0, 1}
DataPath  == "data/"
Seeds     == {0, 1}

None == [kind |-> "none"]
Value(v) == [kind |-> "value", value |-> v]
Raise(e) == [kind |-> "raise", exc |-> e]

\* A decoded waveform: `seed` stands for its samples, `frames` for the number
\* of analysis frames it spans.
Signals == {[seed |-> s, frames |-> s + 1] : s \in Seeds}

\* What a path holds: nothing that decodes, or a waveform.  `transformable`
\* is FALSE for a waveform on which the library transform raises.
Contents ==
    {[kind |-> "missing"]} \cup
    {[kind |-> "audio", signal |-> s, sr |-> DefaultFs, transformable |-> b] :
        s \in Signals, b \in BOOLEAN}

Paths == {DataPath \o f : f \in FileNames}

Rows == [FileName : FileNames, Class : Classes]

SeqsUpTo(S, n) == UNION {[1..k -> S] : k \in 0..n}

----------------------------------------------------------------------------
(* External library calls *)

\* librosa.load(path): the decoded (signal, sr) or an exception.
librosa_load(path) ==
    IF disk[path].kind = "audio"
    THEN Value(<<[signal |-> disk[path].signal,
                  transformable |-> disk[path].transformable], disk[path].sr>>)
    ELSE Raise("FileNotFoundError")

\* librosa.feature.mfcc(signal, sr = fs, n_mfcc = n_coef)
librosa_feature_mfcc(sig, fs, n_mfcc) ==
    [c \in 1..n_mfcc |-> [t \in 1..sig.frames |-> (sig.seed + c * t + fs) % 3]]

\* librosa.feature.delta(data, order = k)
librosa_feature_delta(data, order) ==
    [c \in DOMAIN data |-> [t \in DOMAIN data[c] |-> (data[c][t] + 2 * order + t) % 5]]

----------------------------------------------------------------------------
(* mfccs_parametrization *)

mfccs_parametrization(sig, fs, n) ==
    LET mfccs    == librosa_feature_mfcc(sig, fs, n)
        d1_mfccs == librosa_feature_delta(mfccs, 1)
        d2_mfccs == librosa_feature_delta(mfccs, 2)
    IN  <<mfccs, d1_mfccs, d2_mfccs>>

----------------------------------------------------------------------------
(* mfccs_parametrization_dataset *)

NewRecord(r, t) ==
    [file_name |-> r.FileName, class |-> r.Class,
     mfccs |-> t[1], d1_mfccs |-> t[2], d2_mfccs |-> t[3]]

AppendRecord_front(list, rec) == <<rec>> \o list

AppendRecord(list, rec) == Append(list, rec)

\* line 77
DatasetEnter ==
    /\ op = "mfccs_parametrization_dataset" /\ pc = "enter"
    /\ extracted_mfccs' = <<>>
    /\ it' = 1
    /\ pc' = "for"
    /\ UNCHANGED <<op, ret, df, n_coef, disk, row, signal, triple, reads, param_vars>>

\* line 79: the iterator yields the next row, or is exhausted
ForNext_stay ==
    /\ op = "mfccs_parametrization_dataset" /\ pc = "for"
    /\ IF it <= Len(df)
       THEN /\ row' = df[it]
            /\ pc' = "load"
       ELSE /\ row' = row
            /\ pc' = "return"
    /\ it' = it
    /\ UNCHANGED <<op, ret, df, n_coef, disk, signal, triple, extracted_mfccs, reads,
                   param_vars>>

ForNext ==
    /\ op = "mfccs_parametrization_dataset" /\ pc = "for"
    /\ IF it <= Len(df)
       THEN /\ row' = df[it]
            /\ it' = it + 1
            /\ pc' = "load"
       ELSE /\ row' = row
            /\ it' = it
            /\ pc' = "return"
    /\ UNCHANGED <<op, ret, df, n_coef, disk, signal, triple, extracted_mfccs, reads,
                   param_vars>>

\* lines 80-81; a failed decode skipped instead of propagated
Load_skip ==
    /\ op = "mfccs_parametrization_dataset" /\ pc = "load"
    /\ LET path == DataPath \o row.FileName
           got  == librosa_load(path)
       IN  /\ reads' = Append(reads, path)
           /\ IF got.kind = "raise"
              THEN /\ pc' = "for"
                   /\ signal' = signal
              ELSE /\ signal' = got.value
                   /\ pc' = "param"
    /\ UNCHANGED <<op, ret, df, n_coef, disk, it, row, triple, extracted_mfccs, param_vars>>

\* lines 80-81
Load ==
    /\ op = "mfccs_parametrization_dataset" /\ pc = "load"
    /\ LET path == DataPath \o row.FileName
           got  == librosa_load(path)
       IN  /\ reads' = Append(reads, path)
           /\ IF got.kind = "raise"
              THEN /\ ret' = got
                   /\ pc' = "raised"
                   /\ signal' = signal
              ELSE /\ signal' = got.value
                   /\ ret' = ret
                   /\ pc' = "param"
    /\ UNCHANGED <<op, df, n_coef, disk, it, row, triple, extracted_mfccs, param_vars>>

\* line 82
Parametrize ==
    /\ op = "mfccs_parametrization_dataset" /\ pc = "param"
    /\ IF signal[1].transformable
       THEN /\ triple' = mfccs_parametrization(signal[1].signal, signal[2], n_coef)
            /\ ret' = ret
            /\ pc' = "append"
       ELSE /\ triple' = triple
            /\ ret' = Raise("ParameterError")
            /\ pc' = "raised"
    /\ UNCHANGED <<op, df, n_coef, disk, it, row, signal, extracted_mfccs, reads, param_vars>>

\* lines 83-87
AppendStep ==
    /\ op = "mfccs_parametrization_dataset" /\ pc = "append"
    /\ extracted_mfccs' = AppendRecord(extracted_mfccs, NewRecord(row, triple))
    /\ pc' = "for"
    /\ UNCHANGED <<op, ret, df, n_coef, disk, it, row, signal, triple, reads, param_vars>>

\* line 89
DatasetReturn ==
    /\ op = "mfccs_parametrization_dataset" /\ pc = "return"
    /\ ret' = Value(extracted_mfccs)
    /\ pc' = "returned"
    /\ UNCHANGED <<op, dataset_vars, param_vars>>

Init ==
    /\ op = "mfccs_parametrization_dataset"
    /\ pc = "enter"
    /\ ret = None
    /\ df \in SeqsUpTo(Rows, MaxRows)
    /\ n_coef \in 1..MaxCoef
    /\ disk \in [Paths -> Contents]
    /\ it = 1
    /\ row = [FileName |-> "a.wav", Class |-> 0]
    /\ signal = <<[signal |-> [seed |-> 0, frames |-> 1], transformable |-> TRUE], DefaultFs>>
    /\ triple = <<<<>>, <<>>, <<>>>>
    /\ extracted_mfccs = <<>>
    /\ reads = <<>>
    /\ mfccs_param = <<>>
    /\ n_statistics = 0
    /\ features = [nrows |-> 0, ncols |-> 0, data |-> <<>>]
    /\ i = 1
    /\ file = <<>>

Next ==
    \/ DatasetEnter
    \/ ForNext
    \/ Load
    \/ Parametrize
    \/ AppendStep
    \/ DatasetReturn

Spec == Init /\ [][Next]_vars

\* The call runs on the caller's thread to completion: a step that can be
\* taken is taken.
FairSpec == Spec /\ WF_vars(Next)

----------------------------------------------------------------------------
(* numpy: statistics along the time axis, array allocation and row assignment *)

RECURSIVE Sum(_)
Sum(x) == IF x = <<>> THEN 0 ELSE x[1] + Sum(Tail(x))

RECURSIVE SumSq(_)
SumSq(x) == IF x = <<>> THEN 0 ELSE x[1] * x[1] + SumSq(Tail(x))

RECURSIVE Insert(_, _)
Insert(v, x) ==
    IF x = <<>> THEN <<v>>
    ELSE IF v <= x[1] THEN <<v>> \o x
    ELSE <<x[1]>> \o Insert(v, Tail(x))

RECURSIVE Sorted(_)
Sorted(x) == IF x = <<>> THEN <<>> ELSE Insert(x[1], Sorted(Tail(x)))

RECURSIVE Flatten(_)
Flatten(xs) == IF xs = <<>> THEN <<>> ELSE xs[1] \o Flatten(Tail(xs))

\* A statistic of one row is the exact rational num/den, or its square root
\* when root = 2.
np_median(x) ==
    LET s == Sorted(x)
        n == Len(x)
    IN  [num |-> s[(n + 1) \div 2] + s[(n + 2) \div 2], den |-> 2, root |-> 1]

np_mean(x) == [num |-> Sum(x), den |-> Len(x), root |-> 1]

np_std(x) ==
    [num |-> Len(x) * SumSq(x) - Sum(x) * Sum(x), den |-> Len(x) * Len(x), root |-> 2]

\* s(matrix, axis = 1): one scalar per coefficient row
Statistic(s, m) ==
    [c \in DOMAIN m |->
        CASE s = "median" -> np_median(m[c])
          [] s = "mean"   -> np_mean(m[c])
          [] s = "std"    -> np_std(m[c])]

\* np.zeros((nrows, ncols))
np_zeros(nrows, ncols) ==
    [nrows |-> nrows, ncols |-> ncols,
     data  |-> [r \in 1..nrows |-> [c \in 1..ncols |-> [num |-> 0, den |-> 1, root |-> 1]]]]

\* features[k] = v, with the row cut or zero-filled to the array's width
SetRow_resize(a, k, v) ==
    Value([a EXCEPT !.data[k] =
              [c \in 1..a.ncols |-> IF c <= Len(v) THEN v[c] ELSE @[c]]])

\* features[k] = v: v must have the row's length, or length 1 (broadcast)
SetRow(a, k, v) ==
    IF Len(v) = a.ncols
    THEN Value([a EXCEPT !.data[k] = v])
    ELSE IF Len(v) = 1
    THEN Value([a EXCEPT !.data[k] = [c \in 1..a.ncols |-> v[1]]])
    ELSE Raise("ValueError")

----------------------------------------------------------------------------
(* mfccs_features *)

field      == <<"mfccs", "d1_mfccs", "d2_mfccs">>
statistics == <<"median", "mean", "std">>

\* line 105, with the time axis measured instead of the coefficient axis
NStatistics_frames(p) == Len(statistics) * Len(field) * Len(p[1]["mfccs"][1])

\* line 105
NStatistics(p) == Len(statistics) * Len(field) * Len(p[1]["mfccs"])

\* line 110, with the two loops of the comprehension exchanged
FeatureRow_field_major(rec) ==
    Flatten([k \in 1..(Len(statistics) * Len(field)) |->
                Statistic(statistics[((k - 1) % Len(statistics)) + 1],
                          rec[field[((k - 1) \div Len(statistics)) + 1]])])

\* line 110: [s(rec[f], axis = 1) for s in statistics for f in field], concatenated
FeatureRow(rec) ==
    Flatten([k \in 1..(Len(statistics) * Len(field)) |->
                Statistic(statistics[((k - 1) \div Len(field)) + 1],
                          rec[field[((k - 1) % Len(field)) + 1]])])

\* lines 103-107
FeaturesEnter ==
    /\ op = "mfccs_features" /\ pc = "enter"
    /\ IF Len(mfccs_param) = 0
       THEN /\ ret' = Raise("IndexError")
            /\ pc' = "raised"
            /\ UNCHANGED <<n_statistics, features, i>>
       ELSE /\ n_statistics' = NStatistics(mfccs_param)
            /\ features' = np_zeros(Len(mfccs_param), NStatistics(mfccs_param))
            /\ i' = 1
            /\ ret' = ret
            /\ pc' = "for"
    /\ UNCHANGED <<op, dataset_vars, mfccs_param, file>>

\* lines 109-110
FeaturesFor ==
    /\ op = "mfccs_features" /\ pc = "for"
    /\ IF i <= Len(mfccs_param)
       THEN LET got == SetRow(features, i, FeatureRow(mfccs_param[i]))
            IN  IF got.kind = "raise"
                THEN /\ ret' = got
                     /\ pc' = "raised"
                     /\ UNCHANGED <<features, i>>
                ELSE /\ features' = got.value
                     /\ i' = i + 1
                     /\ UNCHANGED <<ret, pc>>
       ELSE /\ pc' = "return"
            /\ UNCHANGED <<ret, features, i>>
    /\ UNCHANGED <<op, dataset_vars, mfccs_param, n_statistics, file>>

\* line 112
FeaturesReturn ==
    /\ op = "mfccs_features" /\ pc = "return"
    /\ ret' = Value(features)
    /\ pc' = "returned"
    /\ UNCHANGED <<op, dataset_vars, param_vars>>

----------------------------------------------------------------------------
(* get_target, get_file *)

\* line 125 walking the list from its end
get_target_reversed(p) == [k \in DOMAIN p |-> p[Len(p) + 1 - k]["class"]]

\* line 125
get_target(p) == [k \in DOMAIN p |-> p[k]["class"]]

\* line 138
get_file(p) == [k \in DOMAIN p |-> p[k]["file_name"]]

GetTarget ==
    /\ op = "get_target" /\ pc = "enter"
    /\ ret' = Value(get_target(mfccs_param))
    /\ pc' = "returned"
    /\ UNCHANGED <<op, dataset_vars, param_vars>>

GetFile ==
    /\ op = "get_file" /\ pc = "enter"
    /\ ret' = Value(get_file(mfccs_param))
    /\ pc' = "returned"
    /\ UNCHANGED <<op, dataset_vars, param_vars>>

----------------------------------------------------------------------------
(* pickle: the serialized form is a sequence of opcodes for a stack machine *)

Op0(o)    == [opc |-> o]
Op1(o, a) == [opc |-> o, arg |-> a]

Shape(m) == <<Len(m), IF Len(m) = 0 THEN 0 ELSE Len(m[1])>>

\* An array is stored as its shape and its elements in row-major order.
dump_ndarray(m) == <<[opc |-> "NDARRAY", shape |-> Shape(m), raw |-> Flatten(m)]>>

dump_record(r) ==
    <<Op0("EMPTY_DICT"), Op0("MARK"),
      Op1("STR", "file_name"), Op1("STR", r.file_name),
      Op1("STR", "class"), Op1("INT", r.class),
      Op1("STR", "mfccs")>> \o dump_ndarray(r.mfccs) \o
    <<Op1("STR", "d1_mfccs")>> \o dump_ndarray(r.d1_mfccs) \o
    <<Op1("STR", "d2_mfccs")>> \o dump_ndarray(r.d2_mfccs) \o
    <<Op0("SETITEMS")>>

\* pickle.dump(p, f) for a feature-record sequence p: a list of one item is
\* filled by APPEND, a longer one by MARK ... APPENDS.
pickle_dumps(p) ==
    <<Op1("PROTO", 4), Op0("EMPTY_LIST")>> \o
    (IF Len(p) = 0 THEN <<>>
     ELSE IF Len(p) = 1 THEN dump_record(p[1]) \o <<Op0("APPEND")>>
     ELSE <<Op0("MARK")>> \o Flatten([k \in DOMAIN p |-> dump_record(p[k])])
          \o <<Op0("APPENDS")>>) \o
    <<Op0("STOP")>>

Mark   == [t |-> "mark"]
Obj(v) == [t |-> "obj", v |-> v]

Push(stack, item) == Append(stack, item)
Top(stack)        == stack[Len(stack)]
Pop(stack)        == SubSeq(stack, 1, Len(stack) - 1)

\* index of the topmost mark
TopMark(stack) ==
    CHOOSE m \in 1..Len(stack) :
        /\ stack[m].t = "mark"
        /\ \A j \in (m + 1)..Len(stack) : stack[j].t = "obj"

AboveMark(stack) == [j \in 1..(Len(stack) - TopMark(stack)) |-> stack[TopMark(stack) + j].v]
BelowMark(stack) == SubSeq(stack, 1, TopMark(stack) - 1)

Reshape(shape, raw) ==
    [c \in 1..shape[1] |-> [t \in 1..shape[2] |-> raw[(c - 1) * shape[2] + t]]]

\* dict.update from the key, value, key, value ... items above the mark
SetItems(d, items) ==
    LET n    == Len(items) \div 2
        keys == {items[2 * j - 1] : j \in 1..n}
        last(x) == CHOOSE j \in 1..n :
                      /\ items[2 * j - 1] = x
                      /\ \A l \in (j + 1)..n : items[2 * l - 1] # x
    IN  [x \in (DOMAIN d) \cup keys |-> IF x \in keys THEN items[2 * last(x)] ELSE d[x]]

RECURSIVE Unpickle(_, _, _)
Unpickle(stream, pos, stack) ==
    LET ins == stream[pos]
    IN  CASE ins.opc = "PROTO"      -> Unpickle(stream, pos + 1, stack)
          [] ins.opc = "EMPTY_LIST" -> Unpickle(stream, pos + 1, Push(stack, Obj(<<>>)))
          [] ins.opc = "EMPTY_DICT" -> Unpickle(stream, pos + 1, Push(stack, Obj(<<>>)))
          [] ins.opc = "MARK"       -> Unpickle(stream, pos + 1, Push(stack, Mark))
          [] ins.opc = "STR"        -> Unpickle(stream, pos + 1, Push(stack, Obj(ins.arg)))
          [] ins.opc = "INT"        -> Unpickle(stream, pos + 1, Push(stack, Obj(ins.arg)))
          [] ins.opc = "NDARRAY"    ->
                Unpickle(stream, pos + 1, Push(stack, Obj(Reshape(ins.shape, ins.raw))))
          [] ins.opc = "APPEND"     ->
                LET v    == Top(stack).v
                    list == Top(Pop(stack)).v
                IN  Unpickle(stream, pos + 1, Push(Pop(Pop(stack)), Obj(Append(list, v))))
          [] ins.opc = "APPENDS"    ->
                LET below == BelowMark(stack)
                    list  == Top(below).v
                IN  Unpickle(stream, pos + 1,
                             Push(Pop(below), Obj(list \o AboveMark(stack))))
          [] ins.opc = "SETITEMS"   ->
                LET below == BelowMark(stack)
                    d     == Top(below).v
                IN  Unpickle(stream, pos + 1,
                             Push(Pop(below), Obj(SetItems(d, AboveMark(stack)))))
          [] ins.opc = "STOP"       -> Top(stack).v

\* pickle.load(f)
pickle_load(bytes) == Unpickle(bytes, 1, <<>>)

\* lines 152-155 returning the stored records last to first
read_feature_reversed(f) ==
    IF f.exists
    THEN LET v == pickle_load(f.bytes)
         IN  Value([k \in DOMAIN v |-> v[Len(v) + 1 - k]])
    ELSE Raise("FileNotFoundError")

\* lines 152-155: open the file, unpickle it, return the object as it is
read_feature(f) ==
    IF f.exists
    THEN Value(pickle_load(f.bytes))
    ELSE Raise("FileNotFoundError")

NoFile == [exists |-> FALSE, bytes |-> <<>>]

\* The caller's write: pickle.dump(mfccs_param, open(path, 'wb'))
CallerDump ==
    /\ op = "read_feature" /\ pc = "write"
    /\ file' = [exists |-> TRUE, bytes |-> pickle_dumps(mfccs_param)]
    /\ pc' = "enter"
    /\ UNCHANGED <<op, ret, dataset_vars, mfccs_param, n_statistics, features, i>>

\* lines 152-155
ReadFeature ==
    /\ op = "read_feature" /\ pc = "enter"
    /\ ret' = read_feature(file)
    /\ pc' = IF read_feature(file).kind = "raise" THEN "raised" ELSE "returned"
    /\ UNCHANGED <<op, dataset_vars, param_vars>>

----------------------------------------------------------------------------
(* The functions that take a feature-record sequence *)

\* Feature records as mfccs_parametrization_dataset builds them, for any
\* table row, waveform and coefficient count.
ParamRecords ==
    {NewRecord(r, mfccs_parametrization(s, DefaultFs, n)) :
        r \in Rows, s \in Signals, n \in 1..MaxCoef}

InitParam ==
    /\ \/ op \in {"mfccs_features", "get_target", "get_file"} /\ pc = "enter"
       \/ op = "read_feature" /\ pc \in {"write", "enter"}
    /\ ret = None
    /\ mfccs_param \in SeqsUpTo(ParamRecords, MaxRecords)
    /\ n_statistics = 0
    /\ features = [nrows |-> 0, ncols |-> 0, data |-> <<>>]
    /\ i = 1
    /\ file = NoFile
    /\ df = <<>>
    /\ n_coef = 1
    /\ disk = [q \in Paths |-> [kind |-> "missing"]]
    /\ it = 1
    /\ row = [FileName |-> "a.wav", Class |-> 0]
    /\ signal = <<[signal |-> [seed |-> 0, frames |-> 1], transformable |-> TRUE], DefaultFs>>
    /\ triple = <<<<>>, <<>>, <<>>>>
    /\ extracted_mfccs = <<>>
    /\ reads = <<>>

NextParam ==
    \/ FeaturesEnter
    \/ FeaturesFor
    \/ FeaturesReturn
    \/ GetTarget
    \/ GetFile
    \/ CallerDump
    \/ ReadFeature

SpecParam == InitParam /\ [][NextParam]_vars

----------------------------------------------------------------------------
(* Properties of mfccs_parametrization_dataset *)

PathOf(k) == DataPath \o df[k].FileName

\* Row k's file decodes and parametrizes.
RowGood(k) == disk[PathOf(k)].kind = "audio" /\ disk[PathOf(k)].transformable

BadRows == {k \in 1..Len(df) : ~RowGood(k)}

FirstBad == CHOOSE k \in BadRows : \A j \in BadRows : k <= j

Finished == pc \in {"returned", "raised"}

\* C1: when every file of the table decodes and parametrizes, the call
\* returns exactly Len(df) records, and record k carries FileName and Class of
\* row k (table order; no row dropped, duplicated or reordered).
C1_OrderAndCardinality ==
    (op = "mfccs_parametrization_dataset" /\ BadRows = {} /\ Finished) =>
        /\ pc = "returned"
        /\ ret.kind = "value"
        /\ Len(ret.value) = Len(df)
        /\ \A k \in 1..Len(df) :
              /\ ret.value[k].file_name = df[k].FileName
              /\ ret.value[k].class = df[k].Class

C1_Witness ==
    /\ op = "mfccs_parametrization_dataset" /\ pc = "returned"
    /\ Len(df) = 3
    /\ df[1].FileName # df[2].FileName
    /\ df[1].Class # df[3].Class

\* C2: when the file of some row fails to decode or parametrize, with k the
\* first such row, the call never returns a record sequence, it ends by
\* raising (the caller receives the exception only), row k is not skipped
\* and no file of a row after k is ever read.
C2_FailureAborts ==
    (op = "mfccs_parametrization_dataset" /\ BadRows # {}) =>
        /\ pc # "returned"
        /\ ret.kind # "value"
        /\ Len(reads) <= FirstBad
        /\ Len(extracted_mfccs) < FirstBad
        /\ pc = "raised" =>
              /\ ret.kind = "raise"
              /\ DOMAIN ret = {"kind", "exc"}
              /\ Len(reads) = FirstBad

C2_Witness ==
    /\ op = "mfccs_parametrization_dataset" /\ pc = "raised"
    /\ Len(df) = 3
    /\ FirstBad = 2
    /\ Len(extracted_mfccs) = 1

\* C10: files are decoded one at a time in table order: the k-th read is the
\* file of row k, a row's file is read only once the records of all rows
\* before it are appended, the records accumulated are those of the rows
\* fully processed, and the call always ends: with Len(df) records after
\* exactly Len(df) reads, or with a failure.
C10_StepInv ==
    op = "mfccs_parametrization_dataset" =>
        /\ Len(reads) <= Len(df)
        /\ \A k \in 1..Len(reads) : reads[k] = PathOf(k)
        /\ Len(extracted_mfccs) <= Len(reads)
        /\ Len(reads) <= Len(extracted_mfccs) + 1
        /\ pc \in {"for", "load", "return", "returned"} => Len(extracted_mfccs) = Len(reads)
        /\ pc \in {"param", "append"} => Len(extracted_mfccs) = Len(reads) - 1
        /\ pc = "returned" =>
              /\ Len(reads) = Len(df)
              /\ ret = Value(extracted_mfccs)
              /\ Len(extracted_mfccs) = Len(df)

C10_SequentialAndTerminates == []C10_StepInv /\ <>Finished

C10_Witness ==
    /\ op = "mfccs_parametrization_dataset" /\ pc = "param"
    /\ Len(reads) = 2
    /\ Len(extracted_mfccs) = 1
    /\ reads[1] = reads[2]

----------------------------------------------------------------------------
(* Properties of mfccs_features, get_target, get_file and read_feature *)

CoefCount(rec) == Len(rec.mfccs)

Homogeneous(p) == \A k \in DOMAIN p : CoefCount(p[k]) = CoefCount(p[1])

\* The returned array has one row per record, 3 * 3 * n_coef columns, and
\* row k is the feature vector of record k.
FeatureArrayOf(a, p) ==
    /\ a.nrows = Len(p)
    /\ DOMAIN a.data = 1..Len(p)
    /\ Len(p) > 0 => a.ncols = 3 * 3 * CoefCount(p[1])
    /\ \A k \in DOMAIN p :
          /\ Len(a.data[k]) = a.ncols
          /\ a.data[k] = FeatureRow(p[k])

\* C3 as stated: for every homogeneous sequence of zero or more records
\* mfccs_features returns an array of Len(p) rows and 3 * 3 * n_coef columns
\* whose row k is computed from record k.
C3_AnyLength ==
    (op = "mfccs_features" /\ Homogeneous(mfccs_param) /\ Finished) =>
        /\ pc = "returned"
        /\ ret.kind = "value"
        /\ FeatureArrayOf(ret.value, mfccs_param)

\* C3 (amended): for every homogeneous sequence of one or more records
\* mfccs_features returns an array of Len(p) rows and 3 * 3 * n_coef columns
\* whose row k is computed from record k; for the empty sequence it raises
\* IndexError (the column count is read from the first record).
C3_NonEmpty ==
    /\ (op = "mfccs_features" /\ Len(mfccs_param) >= 1 /\ Homogeneous(mfccs_param)
           /\ Finished) =>
           /\ pc = "returned"
           /\ ret.kind = "value"
           /\ FeatureArrayOf(ret.value, mfccs_param)
    /\ (op = "mfccs_features" /\ Len(mfccs_param) = 0 /\ Finished) =>
           /\ pc = "raised"
           /\ ret = Raise("IndexError")

C3_Witness ==
    /\ op = "mfccs_features" /\ pc = "returned"
    /\ Len(mfccs_param) = 2
    /\ mfccs_param[1] # mfccs_param[2]
    /\ ret.value.ncols = 18

\* C4: when some record's coefficient count differs from the first
\* record's, mfccs_features never returns an array: it ends by raising a
\* shape mismatch, at the first such record, and every row written before
\* that is the exact feature vector of its record, neither cut nor filled.
C4_MismatchRaises ==
    (op = "mfccs_features" /\ ~Homogeneous(mfccs_param)) =>
        /\ pc # "returned"
        /\ ret.kind # "value"
        /\ pc \notin {"enter", "raised"} =>
              /\ \A k \in 1..(i - 1) :
                    /\ CoefCount(mfccs_param[k]) = CoefCount(mfccs_param[1])
                    /\ features.data[k] = FeatureRow(mfccs_param[k])
                    /\ Len(features.data[k]) = features.ncols
        /\ pc = "raised" =>
              /\ ret = Raise("ValueError")
              /\ CoefCount(mfccs_param[i]) # CoefCount(mfccs_param[1])

C4_Witness ==
    /\ op = "mfccs_features" /\ pc = "raised"
    /\ Len(mfccs_param) = 2
    /\ CoefCount(mfccs_param[1]) = 2
    /\ CoefCount(mfccs_param[2]) = 1
    /\ i = 2

\* C9: in every row of the returned array, column (3 * s + f) * n_coef + c
\* (0-based) holds statistic s (0 median, 1 mean, 2 std) of matrix f
\* (0 mfccs, 1 d1_mfccs, 2 d2_mfccs) for coefficient c.
C9_StatisticMajorLayout ==
    (op = "mfccs_features" /\ pc = "returned") =>
        LET n == CoefCount(mfccs_param[1])
        IN  \A k \in DOMAIN mfccs_param : \A s \in 0..2 : \A f \in 0..2 : \A c \in 0..(n - 1) :
                ret.value.data[k][(3 * s + f) * n + c + 1] =
                    (CASE s = 0 -> np_median(mfccs_param[k][field[f + 1]][c + 1])
                       [] s = 1 -> np_mean(mfccs_param[k][field[f + 1]][c + 1])
                       [] s = 2 -> np_std(mfccs_param[k][field[f + 1]][c + 1]))

C9_Witness ==
    /\ op = "mfccs_features" /\ pc = "returned"
    /\ Len(mfccs_param) = 2
    /\ CoefCount(mfccs_param[1]) = 2
    /\ mfccs_param[1].mfccs # mfccs_param[1].d1_mfccs
    /\ np_median(mfccs_param[2].d2_mfccs[2]) # np_mean(mfccs_param[2].d2_mfccs[2])

\* C6: get_target(p) returns the 'class' of every record of p and get_file(p)
\* the 'file_name' of every record of p, each in the order of p and of the
\* length of p, and the call leaves p and its records as they were.
C6_Projections ==
    [][/\ (op = "get_target" /\ pc = "enter") =>
             /\ ret' = Value([k \in 1..Len(mfccs_param) |-> mfccs_param[k].class])
             /\ mfccs_param' = mfccs_param
       /\ (op = "get_file" /\ pc = "enter") =>
             /\ ret' = Value([k \in 1..Len(mfccs_param) |-> mfccs_param[k].file_name])
             /\ mfccs_param' = mfccs_param]_vars

C6_Witness ==
    /\ op = "get_target" /\ pc = "returned"
    /\ Len(mfccs_param) = 2
    /\ ret.value = <<1, 0>>
    /\ mfccs_param[1].file_name = mfccs_param[2].file_name

\* C5: a feature-record sequence written with pickle.dump and read back by
\* read_feature is returned equal to the original: the same number of
\* records in the same order, equal field by field and matrix by matrix.
C5_RoundTrip ==
    (op = "read_feature" /\ pc = "returned") =>
        /\ ret.kind = "value"
        /\ Len(ret.value) = Len(mfccs_param)
        /\ \A k \in DOMAIN mfccs_param :
              /\ DOMAIN ret.value[k] = DOMAIN mfccs_param[k]
              /\ ret.value[k].file_name = mfccs_param[k].file_name
              /\ ret.value[k].class = mfccs_param[k].class
              /\ ret.value[k].mfccs = mfccs_param[k].mfccs
              /\ ret.value[k].d1_mfccs = mfccs_param[k].d1_mfccs
              /\ ret.value[k].d2_mfccs = mfccs_param[k].d2_mfccs
        /\ ret.value = mfccs_param

C5_Witness ==
    /\ op = "read_feature" /\ pc = "returned"
    /\ Len(mfccs_param) = 2
    /\ mfccs_param[1] # mfccs_param[2]
    /\ Len(mfccs_param[1].mfccs) = 2
    /\ Len(mfccs_param[1].mfccs[1]) = 2

====
